---- MODULE Spec2Model ----
(***************************************************************************)
(* Model of the boundary pipeline of osm-pays-villes:                      *)
(*   - BoundaryExtractor.extract_boundaries_from_file, its three streaming *)
(*     passes (relations, ways, nodes) and its phase-4 construction loop,  *)
(*     as a state machine over a record stream (specification Spec);       *)
(*   - BoundaryExtractor._build_boundary as a pure function applied to     *)
(*     bounded inputs (specification SpecBuild);                           *)
(*   - BoundarySimplifier.simplify_boundary and its Douglas-Peucker        *)
(*     routine applied to bounded inputs (specification SpecSimplify);     *)
(*   - DatabaseOperations.load_country_geometries and concurrent calls of  *)
(*     find_country_for_point (specification SpecLocate);                  *)
(*   - DatabaseOperations.link_cities_to_countries and its linking steps   *)
(*     over a cities table (specification SpecLink).                       *)
(***************************************************************************)
EXTENDS Integers, Sequences, FiniteSets, Bags, TLC

VARIABLES
    stream,            \* the records of the OSM file, in file order
    target_countries,  \* country_osm_ids argument (empty = None / [])
    pc,                \* position in extract_boundaries_from_file
    pos,               \* number of records of the stream already applied in this pass
    passes,            \* the apply_file calls made so far (handler kinds)
    country_ways,      \* RelationFinder.country_ways : dict id -> list of way ids
    needed_ways,       \* set built at lines 36-38
    ways_data,         \* WayExtractor.ways_data : dict way id -> list of node ids
    needed_nodes,      \* set built at lines 45-47
    nodes_data,        \* NodeExtractor.nodes_data : dict node id -> (lon, lat)
    built,             \* number of items of country_ways already built in phase 4
    boundaries,        \* dict country id -> GeoJSON document
    log,               \* the debug log records about unresolved ids
    arg_ways,          \* SpecBuild: the ways argument of _build_boundary
    arg_ways_data,     \* SpecBuild: the ways_data argument
    arg_nodes_data,    \* SpecBuild: the nodes_data argument
    result,            \* SpecBuild: the value returned by _build_boundary
    bpc,               \* SpecBuild: "call" before the call, "returned" after
    geometry_data,     \* SpecSimplify: the argument of simplify_boundary
    tolerance,         \* SpecSimplify: BoundarySimplifier.tolerance
    simplified,        \* SpecSimplify: the results of the successive _douglas_peucker_simplify calls
    geojson,           \* SpecSimplify: the value returned by simplify_boundary
    spc,               \* SpecSimplify: "call" before simplify_boundary, "returned" after
    countries,         \* SpecLocate: the countries table, id -> boundaries column
    country_geometries,\* SpecLocate: DatabaseOperations.country_geometries : dict id -> ring
    lpc,               \* SpecLocate: "load" before load_country_geometries, "loaded" after
    lookups,           \* SpecLocate: the calls of find_country_for_point in progress
    cities,            \* SpecLink: the cities table, id -> row
    link_pc,           \* SpecLink: position in link_cities_to_countries
    link_steps,        \* SpecLink: the steps of the current run, in the order they ran
    offset,            \* SpecLink: offset of _link_by_geometry
    link_runs          \* SpecLink: number of runs of link_cities_to_countries started

vars ==
    <<stream, target_countries, pc, pos, passes, country_ways, needed_ways,
      ways_data, needed_nodes, nodes_data, built, boundaries, log,
      arg_ways, arg_ways_data, arg_nodes_data, result, bpc,
      geometry_data, tolerance, simplified, geojson, spc,
      countries, country_geometries, lpc, lookups,
      cities, link_pc, link_steps, offset, link_runs>>

pipeVars ==
    <<stream, target_countries, pc, pos, passes, country_ways, needed_ways,
      ways_data, needed_nodes, nodes_data, built, boundaries, log>>

buildVars ==
    <<arg_ways, arg_ways_data, arg_nodes_data, result, bpc>>

simpVars ==
    <<geometry_data, tolerance, simplified, geojson, spc>>

locVars ==
    <<countries, country_geometries, lpc, lookups>>

linkVars ==
    <<cities, link_pc, link_steps, offset, link_runs>>

(***************************************************************************)
(* Bounds of the model.                                                    *)
(***************************************************************************)
MaxStreamNodes == 4
MaxStreamWays == 2
MaxRelations == 2
MaxMembers == 2
BuildNodes == 4

(***************************************************************************)
(* Python dicts keep insertion order: a dict is a sequence of [k, v]       *)
(* items without repeated key.                                             *)
(***************************************************************************)
EmptyDict ==
    <<>>

DictKeys(d) ==
    {d[i].k : i \in 1..Len(d)}

DictHas(d, key) ==
    \E i \in 1..Len(d) : d[i].k = key

DictGet(d, key) ==
    d[CHOOSE i \in 1..Len(d) : d[i].k = key].v

\* d[key] = value : an existing key keeps its place, a new key goes last
DictSet(d, key, value) ==
    IF DictHas(d, key)
    THEN [i \in 1..Len(d) |-> IF d[i].k = key THEN [k |-> key, v |-> value] ELSE d[i]]
    ELSE Append(d, [k |-> key, v |-> value])

\* list(d.values())
DictValues(d) ==
    [i \in 1..Len(d) |-> d[i].v]

RECURSIVE Flatten(_)
\* the concatenation of a sequence of sequences
Flatten(ss) ==
    IF ss = <<>> THEN <<>> ELSE Head(ss) \o Flatten(Tail(ss))

\* the set of the elements of a sequence
Range(s) ==
    {s[i] : i \in 1..Len(s)}

(***************************************************************************)
(* _build_boundary                                                         *)
(***************************************************************************)
\* Python None, as a document without geometry
NoBoundary ==
    [type |-> "None", coordinates |-> <<>>]

RECURSIVE WayNodeCoords(_, _)
\* lines 178-184: the coordinates of the nodes of a way that are in nodes_data
WayNodeCoords(node_ids, nodesData) ==
    IF node_ids = <<>>
    THEN <<>>
    ELSE (IF DictHas(nodesData, Head(node_ids))
          THEN <<DictGet(nodesData, Head(node_ids))>>
          ELSE <<>>) \o WayNodeCoords(Tail(node_ids), nodesData)

RECURSIVE WayCoordinates(_, _, _, _)
\* lines 169-190: way_coordinates, filled in the order of the ways list
WayCoordinates(ways, waysData, nodesData, acc) ==
    IF ways = <<>>
    THEN acc
    ELSE LET way_id == Head(ways) IN
         IF ~DictHas(waysData, way_id)
         THEN WayCoordinates(Tail(ways), waysData, nodesData, acc)
         ELSE LET coords == WayNodeCoords(DictGet(waysData, way_id), nodesData) IN
              IF Len(coords) >= 2
              THEN WayCoordinates(Tail(ways), waysData, nodesData,
                                  DictSet(acc, way_id, coords))
              ELSE WayCoordinates(Tail(ways), waysData, nodesData, acc)

RECURSIVE UniqueCoords(_, _)
\* lines 210-213: drop a coordinate equal to the one kept just before it
UniqueCoords(rest, acc) ==
    IF rest = <<>>
    THEN acc
    ELSE IF Head(rest) # acc[Len(acc)]
         THEN UniqueCoords(Tail(rest), Append(acc, Head(rest)))
         ELSE UniqueCoords(Tail(rest), acc)

\* lines 216-217: close the polygon
ClosePolygon(unique_coords) ==
    IF Len(unique_coords) >= 3 /\ unique_coords[1] # unique_coords[Len(unique_coords)]
    THEN Append(unique_coords, unique_coords[1])
    ELSE unique_coords

\* lines 224-230: the GeoJSON document (a list [lon, lat] per coordinate)
GeoJson(unique_coords) ==
    [type |-> "Polygon",
     coordinates |-> << [i \in 1..Len(unique_coords) |->
                            <<unique_coords[i][1], unique_coords[i][2]>>] >>]

\* lines 198-230: from way_coordinates to the document or None
PolygonFrom(way_coordinates) ==
    LET all_coords == Flatten(DictValues(way_coordinates)) IN
    IF Len(all_coords) < 3
    THEN NoBoundary
    ELSE LET closed == ClosePolygon(UniqueCoords(Tail(all_coords), <<all_coords[1]>>)) IN
         IF Len(closed) < 4 THEN NoBoundary ELSE GeoJson(closed)

\* lines 161-234
BuildBoundary(ways, waysData, nodesData) ==
    LET way_coordinates == WayCoordinates(ways, waysData, nodesData, EmptyDict) IN
    IF way_coordinates = EmptyDict
    THEN NoBoundary
    ELSE PolygonFrom(way_coordinates)

\* _build_boundary without the logger.debug calls of lines 174 and 184
BuildLogNone(ways, waysData, nodesData) ==
    {}

\* lines 174, 184: the debug records _build_boundary logs for the ids it
\* does not find (a node is looked up only for a way that was found)
BuildLog(ways, waysData, nodesData) ==
    {[level |-> "DEBUG", msg |-> "way_not_found", id |-> w] :
        w \in {x \in Range(ways) : ~DictHas(waysData, x)}}
    \cup
    {[level |-> "DEBUG", msg |-> "node_not_found", id |-> n] :
        n \in {x \in UNION {Range(DictGet(waysData, w)) :
                              w \in {y \in Range(ways) : DictHas(waysData, y)}} :
                 ~DictHas(nodesData, x)}}

(***************************************************************************)
(* The handlers of the three passes.                                       *)
(***************************************************************************)
\* the filter without the admin_level test of line 85
IsCountryAnyLevel(tags) ==
    tags.boundary = "administrative"

\* lines 84-85 (and CountryParserSimplified._is_country, lines 276-282);
\* the value "None" stands for a key the tags do not have
IsCountry(tags) ==
    tags.boundary = "administrative" /\ tags.admin_level = "2"

RECURSIVE MemberWays(_)
\* lines 95-98: the refs of the members of type 'w', in member order
MemberWays(members) ==
    IF members = <<>>
    THEN <<>>
    ELSE (IF Head(members).type = "w" THEN <<Head(members).ref>> ELSE <<>>)
         \o MemberWays(Tail(members))

\* lines 78-104: RelationFinder.relation
RelationCallback(r, targets, countryWays) ==
    IF ~IsCountry(r.tags)
    THEN countryWays
    ELSE IF targets # {} /\ r.id \notin targets
         THEN countryWays
         ELSE LET ways == MemberWays(r.members) IN
              IF ways # <<>> THEN DictSet(countryWays, r.id, ways) ELSE countryWays

\* WayExtractor.way without the test of line 125: every way is cached
WayCallbackAll(w, target_ways, waysData) ==
    DictSet(waysData, w.id, w.nodes)

\* lines 120-127: WayExtractor.way
WayCallback(w, target_ways, waysData) ==
    IF w.id \in target_ways THEN DictSet(waysData, w.id, w.nodes) ELSE waysData

\* lines 146-152: NodeExtractor.node
NodeCallback(n, target_nodes, nodesData) ==
    IF n.id \in target_nodes THEN DictSet(nodesData, n.id, <<n.lon, n.lat>>) ELSE nodesData

\* the way pass started before its target set is filled
NeededWaysNone(countryWays) ==
    {}

\* lines 36-38: the union of the way lists of country_ways
NeededWays(countryWays) ==
    UNION {Range(countryWays[i].v) : i \in 1..Len(countryWays)}

\* lines 45-47: the union of the node lists of ways_data
NeededNodes(waysData) ==
    UNION {Range(waysData[i].v) : i \in 1..Len(waysData)}

(***************************************************************************)
(* The record streams of the model.                                        *)
(***************************************************************************)
NodeRecord(n) ==
    [kind |-> "node", id |-> n, lon |-> n, lat |-> 0 - n]

WayRecord(w) ==
    [kind |-> "way", id |-> w, nodes |-> <<w, w + 1, w + 2>>]

CountryTags ==
    [boundary |-> "administrative", admin_level |-> "2"]

\* the tags a relation may carry: those of a country, or tags failing one
\* of the two tests of the filter
TagChoices ==
    {CountryTags,
     [boundary |-> "administrative", admin_level |-> "4"],
     [boundary |-> "None", admin_level |-> "2"]}

\* the role under which way w is listed by the relations that choose their
\* members: outer, inner, or no role
RoleOf(w) ==
    IF w = 1 THEN "outer" ELSE IF w = 2 THEN "inner" ELSE ""

MemberChoices ==
    {[type |-> "w", ref |-> w, role |-> RoleOf(w)] : w \in 1..MaxStreamWays}
    \cup {[type |-> "n", ref |-> 1, role |-> ""]}

MemberLists ==
    UNION {[1..n -> MemberChoices] : n \in 0..MaxMembers}

\* a country relation with one member, a way of the stream
CountryRelation(i) ==
    [kind |-> "relation", id |-> i, tags |-> CountryTags,
     members |-> <<[type |-> "w", ref |-> (i % MaxStreamWays) + 1, role |-> "outer"]>>]

RECURSIVE SeqOfSet(_)
\* the elements of a set of integers in ascending order
SeqOfSet(S) ==
    IF S = {} THEN <<>>
    ELSE LET m == CHOOSE x \in S : \A y \in S : x <= y IN <<m>> \o SeqOfSet(S \ {m})

\* an OSM file: its nodes, then its ways, then its relations (the order of
\* a sorted file), or the three groups in the opposite order
StreamOf(nodeIds, wayIds, relations, layout) ==
    LET nodeRecords == [i \in 1..Cardinality(nodeIds) |-> NodeRecord(SeqOfSet(nodeIds)[i])]
        wayRecords == [i \in 1..Cardinality(wayIds) |-> WayRecord(SeqOfSet(wayIds)[i])]
    IN IF layout = "sorted"
       THEN nodeRecords \o wayRecords \o relations
       ELSE relations \o wayRecords \o nodeRecords

(***************************************************************************)
(* extract_boundaries_from_file as a state machine.                        *)
(***************************************************************************)
SimplifyIdle ==
    /\ geometry_data = <<>>
    /\ tolerance = 0
    /\ simplified = <<>>
    /\ geojson = NoBoundary
    /\ spc = "idle"

LocateIdle ==
    /\ countries = <<>>
    /\ country_geometries = EmptyDict
    /\ lpc = "idle"
    /\ lookups = EmptyBag

LinkIdle ==
    /\ cities = <<>>
    /\ link_pc = "idle"
    /\ link_steps = <<>>
    /\ offset = 0
    /\ link_runs = 0

BuildIdle ==
    /\ arg_ways = <<>>
    /\ arg_ways_data = EmptyDict
    /\ arg_nodes_data = EmptyDict
    /\ result = NoBoundary
    /\ bpc = "idle"

Init ==
    /\ \E missingNode \in 0..MaxStreamNodes, missingWay \in 0..MaxStreamWays,
          layout \in {"sorted", "reversed"},
          free \in 1..MaxRelations, tags \in TagChoices, members \in MemberLists :
         /\ missingNode = 0 \/ missingWay = 0
         /\ stream = StreamOf((1..MaxStreamNodes) \ {missingNode},
                              (1..MaxStreamWays) \ {missingWay},
                              [i \in 1..MaxRelations |->
                                 IF i = free
                                 THEN [kind |-> "relation", id |-> i,
                                       tags |-> tags, members |-> members]
                                 ELSE CountryRelation(i)],
                              layout)
    /\ target_countries \in {{}} \cup {{i} : i \in 1..MaxRelations}
    /\ pc = "relations"
    /\ pos = 0
    /\ passes = <<"relation">>
    /\ country_ways = EmptyDict
    /\ needed_ways = {}
    /\ ways_data = EmptyDict
    /\ needed_nodes = {}
    /\ nodes_data = EmptyDict
    /\ built = 0
    /\ boundaries = EmptyDict
    /\ log = {}
    /\ BuildIdle
    /\ SimplifyIdle
    /\ LocateIdle
    /\ LinkIdle

InPass ==
    pc \in {"relations", "ways", "nodes"} /\ pos < Len(stream)

\* the kind of record the handler class of the running pass has a callback for
HandledKind ==
    CASE pc = "relations" -> "relation"
      [] pc = "ways" -> "way"
      [] pc = "nodes" -> "node"
      [] OTHER -> "none"

\* pass 1, a relation record: RelationFinder.relation
RelationHandler ==
    /\ InPass /\ pc = "relations" /\ stream[pos + 1].kind = "relation"
    /\ country_ways' = RelationCallback(stream[pos + 1], target_countries, country_ways)
    /\ pos' = pos + 1
    /\ UNCHANGED <<stream, target_countries, pc, passes, needed_ways, ways_data,
                   needed_nodes, nodes_data, built, boundaries, log>>
    /\ UNCHANGED buildVars
    /\ UNCHANGED <<simpVars, locVars, linkVars>>

\* pass 2, a way record: WayExtractor.way
WayHandler ==
    /\ InPass /\ pc = "ways" /\ stream[pos + 1].kind = "way"
    /\ ways_data' = WayCallback(stream[pos + 1], needed_ways, ways_data)
    /\ pos' = pos + 1
    /\ UNCHANGED <<stream, target_countries, pc, passes, country_ways, needed_ways,
                   needed_nodes, nodes_data, built, boundaries, log>>
    /\ UNCHANGED buildVars
    /\ UNCHANGED <<simpVars, locVars, linkVars>>

\* pass 3, a node record: NodeExtractor.node
NodeHandler ==
    /\ InPass /\ pc = "nodes" /\ stream[pos + 1].kind = "node"
    /\ nodes_data' = NodeCallback(stream[pos + 1], needed_nodes, nodes_data)
    /\ pos' = pos + 1
    /\ UNCHANGED <<stream, target_countries, pc, passes, country_ways, needed_ways,
                   ways_data, needed_nodes, built, boundaries, log>>
    /\ UNCHANGED buildVars
    /\ UNCHANGED <<simpVars, locVars, linkVars>>

\* a record of a kind the handler class of the pass defines no callback for
SkipRecord ==
    /\ InPass /\ stream[pos + 1].kind # HandledKind
    /\ pos' = pos + 1
    /\ UNCHANGED <<stream, target_countries, pc, passes, country_ways, needed_ways,
                   ways_data, needed_nodes, nodes_data, built, boundaries, log>>
    /\ UNCHANGED buildVars
    /\ UNCHANGED <<simpVars, locVars, linkVars>>

\* lines 26-40: the end of pass 1; return {} when no country was found
EndRelationPass ==
    /\ pc = "relations" /\ pos = Len(stream)
    /\ IF country_ways = EmptyDict
       THEN /\ pc' = "done"
            /\ UNCHANGED <<pos, passes, needed_ways>>
       ELSE /\ needed_ways' = NeededWays(country_ways)
            /\ passes' = Append(passes, "way")
            /\ pc' = "ways"
            /\ pos' = 0
    /\ UNCHANGED <<stream, target_countries, country_ways, ways_data, needed_nodes,
                   nodes_data, built, boundaries, log>>
    /\ UNCHANGED buildVars
    /\ UNCHANGED <<simpVars, locVars, linkVars>>

\* the end of pass 2 with a missing way treated as fatal: return {}
EndWayPassStrict ==
    /\ pc = "ways" /\ pos = Len(stream)
    /\ IF DictKeys(ways_data) # needed_ways
       THEN /\ pc' = "done"
            /\ UNCHANGED <<pos, passes, needed_nodes>>
       ELSE /\ needed_nodes' = NeededNodes(ways_data)
            /\ passes' = Append(passes, "node")
            /\ pc' = "nodes"
            /\ pos' = 0
    /\ UNCHANGED <<stream, target_countries, country_ways, needed_ways, ways_data,
                   nodes_data, built, boundaries, log>>
    /\ UNCHANGED buildVars
    /\ UNCHANGED <<simpVars, locVars, linkVars>>

\* lines 40-49: the end of pass 2
EndWayPass ==
    /\ pc = "ways" /\ pos = Len(stream)
    /\ needed_nodes' = NeededNodes(ways_data)
    /\ passes' = Append(passes, "node")
    /\ pc' = "nodes"
    /\ pos' = 0
    /\ UNCHANGED <<stream, target_countries, country_ways, needed_ways, ways_data,
                   nodes_data, built, boundaries, log>>
    /\ UNCHANGED buildVars
    /\ UNCHANGED <<simpVars, locVars, linkVars>>

\* lines 49-54: the end of pass 3
EndNodePass ==
    /\ pc = "nodes" /\ pos = Len(stream)
    /\ pc' = "build"
    /\ UNCHANGED <<stream, target_countries, pos, passes, country_ways, needed_ways,
                   ways_data, needed_nodes, nodes_data, built, boundaries, log>>
    /\ UNCHANGED buildVars
    /\ UNCHANGED <<simpVars, locVars, linkVars>>

\* one turn of the phase-4 loop that also removes from the way cache the
\* ways of the relation it has built
BuildNextConsume ==
    /\ pc = "build" /\ built < Len(country_ways)
    /\ LET country_id == country_ways[built + 1].k
           ways == country_ways[built + 1].v
           boundary == BuildBoundary(ways, ways_data, nodes_data)
       IN /\ boundaries' = IF boundary # NoBoundary
                           THEN DictSet(boundaries, country_id, boundary)
                           ELSE boundaries
          /\ log' = log \cup BuildLog(ways, ways_data, nodes_data)
          /\ ways_data' = SelectSeq(ways_data, LAMBDA item : item.k \notin Range(ways))
    /\ built' = built + 1
    /\ UNCHANGED <<stream, target_countries, pc, pos, passes, country_ways, needed_ways,
                   needed_nodes, nodes_data>>
    /\ UNCHANGED buildVars
    /\ UNCHANGED <<simpVars, locVars, linkVars>>

\* one turn of the phase-4 loop in which a relation without geometry ends the loop
BuildNextAbort ==
    /\ pc = "build" /\ built < Len(country_ways)
    /\ LET country_id == country_ways[built + 1].k
           ways == country_ways[built + 1].v
           boundary == BuildBoundary(ways, ways_data, nodes_data)
       IN /\ boundaries' = IF boundary # NoBoundary
                           THEN DictSet(boundaries, country_id, boundary)
                           ELSE boundaries
          /\ log' = log \cup BuildLog(ways, ways_data, nodes_data)
          /\ built' = IF boundary # NoBoundary THEN built + 1 ELSE Len(country_ways)
    /\ UNCHANGED <<stream, target_countries, pc, pos, passes, country_ways, needed_ways,
                   ways_data, needed_nodes, nodes_data>>
    /\ UNCHANGED buildVars
    /\ UNCHANGED <<simpVars, locVars, linkVars>>

\* lines 56-65: one turn of the phase-4 loop
BuildNext ==
    /\ pc = "build" /\ built < Len(country_ways)
    /\ LET country_id == country_ways[built + 1].k
           ways == country_ways[built + 1].v
           boundary == BuildBoundary(ways, ways_data, nodes_data)
       IN /\ boundaries' = IF boundary # NoBoundary
                           THEN DictSet(boundaries, country_id, boundary)
                           ELSE boundaries
          /\ log' = log \cup BuildLog(ways, ways_data, nodes_data)
    /\ built' = built + 1
    /\ UNCHANGED <<stream, target_countries, pc, pos, passes, country_ways, needed_ways,
                   ways_data, needed_nodes, nodes_data>>
    /\ UNCHANGED buildVars
    /\ UNCHANGED <<simpVars, locVars, linkVars>>

\* line 67
Return ==
    /\ pc = "build" /\ built = Len(country_ways)
    /\ pc' = "done"
    /\ UNCHANGED <<stream, target_countries, pos, passes, country_ways, needed_ways,
                   ways_data, needed_nodes, nodes_data, built, boundaries, log>>
    /\ UNCHANGED buildVars
    /\ UNCHANGED <<simpVars, locVars, linkVars>>

Next ==
    \/ RelationHandler
    \/ WayHandler
    \/ NodeHandler
    \/ SkipRecord
    \/ EndRelationPass
    \/ EndWayPass
    \/ EndNodePass
    \/ BuildNext
    \/ Return

Spec ==
    Init /\ [][Next]_vars

(***************************************************************************)
(* _build_boundary applied to bounded arguments.                           *)
(***************************************************************************)
PipeIdle ==
    /\ stream = <<>>
    /\ target_countries = {}
    /\ pc = "idle"
    /\ pos = 0
    /\ passes = <<>>
    /\ country_ways = EmptyDict
    /\ needed_ways = {}
    /\ ways_data = EmptyDict
    /\ needed_nodes = {}
    /\ nodes_data = EmptyDict
    /\ built = 0
    /\ boundaries = EmptyDict
    /\ log = {}

\* the location NodeExtractor caches for node n of NodeRecord
Location(n) ==
    <<NodeRecord(n).lon, NodeRecord(n).lat>>

\* the node after n around the nodes of the harness
NextNode(n) ==
    (n % BuildNodes) + 1

\* the node lists a way may have: two distinct nodes, or three in a row
WayShapes ==
    ({<<a, b>> : a, b \in 1..BuildNodes} \ {<<a, a>> : a \in 1..BuildNodes})
    \cup {<<a, NextNode(a), NextNode(NextNode(a))>> : a \in 1..BuildNodes}

\* the way ids of the harness
BuildWayIds ==
    {1, 2, 3}

\* the member way lists: some of the way ids, in any order
WayLists ==
    {ws \in UNION {[1..n -> BuildWayIds] : n \in 1..Cardinality(BuildWayIds)} :
        \A i, j \in 1..Len(ws) : i # j => ws[i] # ws[j]}

\* a dict over the keys of S, in ascending order, with value f[key]
DictOver(S, f) ==
    [i \in 1..Cardinality(S) |-> [k |-> SeqOfSet(S)[i], v |-> f[SeqOfSet(S)[i]]]]

\* a closed way: the triangle of the nodes 3w-2, 3w-1, 3w, back to its start
ClosedWay(w) ==
    <<3 * w - 2, 3 * w - 1, 3 * w, 3 * w - 2>>

\* the closed ways of the harness: two triangles without a common node
ClosedWayIds ==
    {1, 2}

InitBuild ==
    /\ PipeIdle
    /\ \/ /\ arg_ways \in WayLists
          /\ \E present \in SUBSET BuildWayIds, missingNode \in 0..BuildNodes :
               \E shape \in [present -> WayShapes] :
                  /\ arg_ways_data = DictOver(present, shape)
                  /\ arg_nodes_data =
                       DictOver((UNION {Range(shape[w]) : w \in present}) \ {missingNode},
                                [n \in 1..BuildNodes |-> Location(n)])
       \/ /\ arg_ways \in {ws \in WayLists : Range(ws) \subseteq ClosedWayIds}
          /\ arg_ways_data = DictOver(ClosedWayIds, [w \in ClosedWayIds |-> ClosedWay(w)])
          /\ arg_nodes_data =
               DictOver(UNION {Range(ClosedWay(w)) : w \in ClosedWayIds},
                        [n \in UNION {Range(ClosedWay(w)) : w \in ClosedWayIds} |->
                           Location(n)])
    /\ result = NoBoundary
    /\ bpc = "call"
    /\ SimplifyIdle
    /\ LocateIdle
    /\ LinkIdle

\* lines 161-234: the call and its return value
BuildCall ==
    /\ bpc = "call"
    /\ result' = BuildBoundary(arg_ways, arg_ways_data, arg_nodes_data)
    /\ log' = log \cup BuildLog(arg_ways, arg_ways_data, arg_nodes_data)
    /\ bpc' = "returned"
    /\ UNCHANGED <<arg_ways, arg_ways_data, arg_nodes_data>>
    /\ UNCHANGED <<stream, target_countries, pc, pos, passes, country_ways, needed_ways,
                   ways_data, needed_nodes, nodes_data, built, boundaries>>
    /\ UNCHANGED <<simpVars, locVars, linkVars>>

NextBuild ==
    BuildCall

SpecBuild ==
    InitBuild /\ [][NextBuild]_vars

(***************************************************************************)
(* extract_single_country_boundary (test_boundary_extraction.py): the      *)
(* construction the test script makes from its own caches, which hold the  *)
(* member ways of the relation in the order of the stream.  The value is   *)
(* the geometry of the Feature it saves, or None where it returns False.   *)
(***************************************************************************)
RECURSIVE TestAllCoords(_, _, _)
\* lines 168-181: all_coords, from the items of ways_data in their order
TestAllCoords(items, target_ways, nodesData) ==
    IF items = <<>>
    THEN <<>>
    ELSE LET way_coords == IF Head(items).k \in target_ways
                           THEN WayNodeCoords(Head(items).v, nodesData)
                           ELSE <<>>
         IN (IF Len(way_coords) >= 2 THEN way_coords ELSE <<>>)
               \o TestAllCoords(Tail(items), target_ways, nodesData)

\* lines 191-197: consecutive repetitions removed, then closed
TestClosePolygon(all_coords) ==
    LET unique_coords == UniqueCoords(Tail(all_coords), <<all_coords[1]>>) IN
    IF unique_coords[1] # unique_coords[Len(unique_coords)]
    THEN Append(unique_coords, unique_coords[1])
    ELSE unique_coords

\* lines 100-230, for the relation whose way members are ways
ExtractSingleCountryBoundary(ways, waysData, nodesData) ==
    IF Range(ways) = {}
    THEN NoBoundary
    ELSE LET all_coords == TestAllCoords(waysData, Range(ways), nodesData) IN
         IF Len(all_coords) < 3
         THEN NoBoundary
         ELSE IF Len(TestClosePolygon(all_coords)) < 4
              THEN NoBoundary
              ELSE GeoJson(TestClosePolygon(all_coords))

(***************************************************************************)
(* BoundarySimplifier (boundary_simplifier.py) applied to bounded inputs.  *)
(* Coordinates are integers and the tolerance is an integer, so that every *)
(* comparison of two distances is decided exactly: a distance is kept as   *)
(* its square, a fraction num/den of naturals (squaring is increasing on   *)
(* the non-negative numbers, so d > e exactly when d^2 > e^2).             *)
(***************************************************************************)
MaxPoints == 4
MaxTolerance == 2
DpCalls == 2

\* the (lon, lat) pairs of the harness
GridPoints ==
    {<<0, 0>>, <<1, 0>>, <<2, 0>>, <<1, 1>>, <<2, 1>>}

\* line 61: max_distance = 0
ZeroDistance ==
    [num |-> 0, den |-> 1]

\* the comparison d > e of lines 66 and 71, on squared distances
Greater(d, e) ==
    d.num * e.den > e.num * d.den

\* lines 82-96: the squared distance from point to the line (or to the
\* point when line_start = line_end)
PerpendicularDistance(point, line_start, line_end) ==
    LET x0 == point[1]
        y0 == point[2]
        x1 == line_start[1]
        y1 == line_start[2]
        x2 == line_end[1]
        y2 == line_end[2]
    IN IF x1 = x2 /\ y1 = y2
       THEN [num |-> (x0 - x1) * (x0 - x1) + (y0 - y1) * (y0 - y1), den |-> 1]
       ELSE LET numerator == (y2 - y1) * x0 - (x2 - x1) * y0 + x2 * y1 - y2 * x1
            IN [num |-> numerator * numerator,
                den |-> (y2 - y1) * (y2 - y1) + (x2 - x1) * (x2 - x1)]

\* lines 61-68: the loop over the interior points from index i on, with the
\* running maximum (indices are 1-based here; the strict > keeps the first
\* of several equally distant points, and keeps index 1 when no interior
\* point is off the line)
RECURSIVE FarthestPoint(_, _, _, _)
FarthestPoint(coordinates, i, max_distance, max_index) ==
    IF i > Len(coordinates) - 1
    THEN [max_distance |-> max_distance, max_index |-> max_index]
    ELSE LET distance == PerpendicularDistance(coordinates[i], coordinates[1],
                                               coordinates[Len(coordinates)])
         IN IF Greater(distance, max_distance)
            THEN FarthestPoint(coordinates, i + 1, distance, i)
            ELSE FarthestPoint(coordinates, i + 1, max_distance, max_index)

\* line 80 with every interior point but the first dropped one kept
KeepAnchorsDropOne(coordinates) ==
    <<coordinates[1]>> \o SubSeq(coordinates, 3, Len(coordinates))

\* line 80 with the two anchors in the opposite order
KeepAnchorsSwapped(coordinates) ==
    <<coordinates[Len(coordinates)], coordinates[1]>>

\* line 80: return [start, end]
KeepAnchors(coordinates) ==
    <<coordinates[1], coordinates[Len(coordinates)]>>

\* lines 53-80
RECURSIVE DouglasPeuckerSimplify(_, _)
DouglasPeuckerSimplify(coordinates, tol) ==
    IF Len(coordinates) <= 2
    THEN coordinates
    ELSE LET far == FarthestPoint(coordinates, 2, ZeroDistance, 1) IN
         IF Greater(far.max_distance, [num |-> tol * tol, den |-> 1])
         THEN LET left == DouglasPeuckerSimplify(
                              SubSeq(coordinates, 1, far.max_index), tol)
                  right == DouglasPeuckerSimplify(
                              SubSeq(coordinates, far.max_index, Len(coordinates)), tol)
              IN SubSeq(left, 1, Len(left) - 1) \o right
         ELSE KeepAnchors(coordinates)

\* lines 38-51: the coordinates of the geoms of type way that have nodes
RECURSIVE ExtractCoordinates(_)
ExtractCoordinates(geoms) ==
    IF geoms = <<>>
    THEN <<>>
    ELSE LET geom == Head(geoms)
             coords == IF geom.type = "way" /\ geom.has_nodes
                       THEN [i \in 1..Len(geom.nodes) |->
                               <<geom.nodes[i].lon, geom.nodes[i].lat>>]
                       ELSE <<>>
         IN coords \o ExtractCoordinates(Tail(geoms))

\* lines 98-113
ToGeoJson(coordinates) ==
    IF Len(coordinates) < 3
    THEN [type |-> "Polygon", coordinates |-> << <<>> >>]
    ELSE [type |-> "Polygon",
          coordinates |-> << IF coordinates[1] # coordinates[Len(coordinates)]
                             THEN Append(coordinates, coordinates[1])
                             ELSE coordinates >>]

\* lines 19-36: the value simplify_boundary returns
SimplifyBoundaryResult(geoms, tol) ==
    LET coordinates == ExtractCoordinates(geoms) IN
    IF coordinates = <<>>
    THEN NoBoundary
    ELSE ToGeoJson(DouglasPeuckerSimplify(coordinates, tol))

\* the point sequences of the harness
PointSeqs ==
    UNION {[1..n -> GridPoints] : n \in 0..MaxPoints}

\* a geom dict of the given type over a point sequence
Geom(type, has_nodes, points) ==
    [type |-> type, has_nodes |-> has_nodes,
     nodes |-> [i \in 1..Len(points) |-> [lon |-> points[i][1], lat |-> points[i][2]]]]

InitSimplify ==
    /\ PipeIdle
    /\ BuildIdle
    /\ LocateIdle
    /\ LinkIdle
    /\ \E points \in PointSeqs :
         \E cut \in 0..Len(points), second \in {"way", "node", "no_nodes"} :
            geometry_data =
               << Geom("way", TRUE, SubSeq(points, 1, cut)),
                  Geom(IF second = "node" THEN "node" ELSE "way", second # "no_nodes",
                       SubSeq(points, cut + 1, Len(points))) >>
    /\ tolerance \in 0..MaxTolerance
    /\ simplified = <<>>
    /\ geojson = NoBoundary
    /\ spc = "call"

\* lines 19-36: a call of simplify_boundary
SimplifyBoundary ==
    /\ spc = "call"
    /\ geojson' = SimplifyBoundaryResult(geometry_data, tolerance)
    /\ spc' = "returned"
    /\ UNCHANGED <<geometry_data, tolerance, simplified>>
    /\ UNCHANGED <<pipeVars, buildVars, locVars, linkVars>>

\* lines 53-80: a call of _douglas_peucker_simplify, first on the extracted
\* coordinates and then on the result of the call before
DouglasPeuckerCall ==
    /\ spc # "idle"
    /\ Len(simplified) < DpCalls
    /\ LET coordinates == IF simplified = <<>>
                          THEN ExtractCoordinates(geometry_data)
                          ELSE simplified[Len(simplified)]
       IN simplified' = Append(simplified, DouglasPeuckerSimplify(coordinates, tolerance))
    /\ UNCHANGED <<geometry_data, tolerance, geojson, spc>>
    /\ UNCHANGED <<pipeVars, buildVars, locVars, linkVars>>

NextSimplify ==
    \/ SimplifyBoundary
    \/ DouglasPeuckerCall

SpecSimplify ==
    InitSimplify /\ [][NextSimplify]_vars

(***************************************************************************)
(* DatabaseOperations (operations.py): load_country_geometries and calls   *)
(* of find_country_for_point.  A lookup is one step for its entry (lines   *)
(* 143-146) and one step per turn of its loop (lines 149-157), so that     *)
(* several lookups in progress interleave; the lookups in progress are a   *)
(* bag of records.  None is 0 (the ids of the table are positive).         *)
(***************************************************************************)
MaxCountries == 2
MaxLookups == 2

\* rings of [lon, lat] pairs: a wide rectangle, a hole inside it, a square
\* that overlaps the rectangle on its east side, and a degenerate shell
WideRing ==
    << <<0, 0>>, <<6, 0>>, <<6, 4>>, <<0, 4>>, <<0, 0>> >>

HoleRing ==
    << <<1, 1>>, <<3, 1>>, <<3, 3>>, <<1, 3>>, <<1, 1>> >>

EastRing ==
    << <<4, 2>>, <<8, 2>>, <<8, 6>>, <<4, 6>>, <<4, 2>> >>

ShortRing ==
    << <<0, 0>>, <<6, 0>> >>

\* the values of the boundaries column: NULL (NoBoundary) or a document
BoundaryChoices ==
    {NoBoundary,
     [type |-> "Polygon", coordinates |-> <<WideRing>>],
     [type |-> "Polygon", coordinates |-> <<WideRing, HoleRing>>],
     [type |-> "Polygon", coordinates |-> <<EastRing>>],
     [type |-> "Polygon", coordinates |-> << <<>> >>],
     [type |-> "Polygon", coordinates |-> <<ShortRing>>],
     [type |-> "MultiPolygon", coordinates |-> << <<WideRing>> >>]}

\* the (lat, lng) arguments of the lookups
QueryArgs ==
    {[lat |-> 2, lng |-> 2], [lat |-> 1, lng |-> 5], [lat |-> 3, lng |-> 5],
     [lat |-> 0, lng |-> 3], [lat |-> 0, lng |-> 0], [lat |-> 5, lng |-> 2]}

\* line 146 with the arguments in the order given
QueryPointLatFirst(lat, lng) ==
    <<lat, lng>>

\* line 146: point = Point(lng, lat)
QueryPoint(lat, lng) ==
    <<lng, lat>>

\* twice the signed area of the triangle a, b, p
Cross(a, b, p) ==
    (b[1] - a[1]) * (p[2] - a[2]) - (b[2] - a[2]) * (p[1] - a[1])

\* p lies on the segment from a to b, ends included
OnSegment(p, a, b) ==
    /\ Cross(a, b, p) = 0
    /\ (a[1] <= p[1] /\ p[1] <= b[1]) \/ (b[1] <= p[1] /\ p[1] <= a[1])
    /\ (a[2] <= p[2] /\ p[2] <= b[2]) \/ (b[2] <= p[2] /\ p[2] <= a[2])

\* p lies on an edge or a vertex of the ring
OnRing(ring, p) ==
    \E i \in 1..(Len(ring) - 1) : OnSegment(p, ring[i], ring[i + 1])

\* the edge from a to b crosses the half line from p towards greater lon
CrossesRay(a, b, p) ==
    /\ (a[2] > p[2]) # (b[2] > p[2])
    /\ IF b[2] > a[2] THEN Cross(a, b, p) > 0 ELSE Cross(a, b, p) < 0

\* p is in the region the ring bounds, its edges apart (even-odd rule)
InsideRing(ring, p) ==
    /\ ~OnRing(ring, p)
    /\ Cardinality({i \in 1..(Len(ring) - 1) : CrossesRay(ring[i], ring[i + 1], p)}) % 2 = 1

\* line 151: geometry.contains(point) of a polygon made of one shell: the
\* point is in the interior of the polygon, its boundary excluded
Contains(geometry, point) ==
    InsideRing(geometry, point)

\* line 128: Polygon(coords[0]) raises on a shell of fewer than 3 coordinates
PolygonRaises(shell) ==
    Len(shell) < 3

\* lines 119-137: the loop over the fetched rows, in fetch order
RECURSIVE LoadRows(_, _, _)
LoadRows(order, table, geometries) ==
    IF order = <<>>
    THEN geometries
    ELSE LET country_id == Head(order)
             geom_data == table[country_id]
             coords == geom_data.coordinates
         IN LoadRows(Tail(order), table,
                IF /\ geom_data.type = "Polygon"
                   /\ coords # <<>>
                   /\ coords[1] # <<>>
                   /\ ~PolygonRaises(coords[1])
                THEN DictSet(geometries, country_id, [geometry |-> coords[1]])
                ELSE geometries)

\* the orders in which the rows of a set of ids may be fetched
FetchOrders(ids) ==
    {order \in [1..Cardinality(ids) -> ids] :
        \A i, j \in 1..Cardinality(ids) : i # j => order[i] # order[j]}

\* lines 148-157: the scan of the items from position i on
RECURSIVE ScanFrom(_, _, _)
ScanFrom(geometries, i, point) ==
    IF i > Len(geometries)
    THEN 0
    ELSE IF Contains(geometries[i].v.geometry, point)
         THEN geometries[i].k
         ELSE ScanFrom(geometries, i + 1, point)

\* lines 141-157: the value of one call made alone
FindCountryForPoint(geometries, lat, lng) ==
    IF geometries = EmptyDict
    THEN 0
    ELSE ScanFrom(geometries, 1, QueryPoint(lat, lng))

InitLocate ==
    /\ PipeIdle
    /\ BuildIdle
    /\ SimplifyIdle
    /\ LinkIdle
    /\ countries \in [1..MaxCountries -> BoundaryChoices]
    /\ country_geometries = EmptyDict
    /\ lpc = "load"
    /\ lookups = EmptyBag

\* lines 105-139: the rows with boundaries IS NOT NULL, in the order the
\* database returns them (the query has no ORDER BY)
LoadCountryGeometries ==
    /\ lpc = "load"
    /\ \E order \in FetchOrders({id \in DOMAIN countries : countries[id] # NoBoundary}) :
         country_geometries' = LoadRows(order, countries, country_geometries)
    /\ lpc' = "loaded"
    /\ UNCHANGED <<countries, lookups>>
    /\ UNCHANGED <<pipeVars, buildVars, simpVars, linkVars>>

\* lines 141-146: entry of a call of find_country_for_point
FindCall ==
    /\ lpc \in {"load", "loaded"}
    /\ BagCardinality(lookups) < MaxLookups
    /\ \E q \in QueryArgs :
         lookups' = lookups (+) SetToBag({
            IF country_geometries = EmptyDict
            THEN [lat |-> q.lat, lng |-> q.lng, pos |-> 0, result |-> 0, pc |-> "returned"]
            ELSE [lat |-> q.lat, lng |-> q.lng, pos |-> 1, result |-> 0, pc |-> "scan"]})
    /\ UNCHANGED <<countries, country_geometries, lpc>>
    /\ UNCHANGED <<pipeVars, buildVars, simpVars, linkVars>>

\* the lookup l after one turn of the loop of lines 149-157
Scanned(l) ==
    LET item == country_geometries[l.pos] IN
    IF Contains(item.v.geometry, QueryPoint(l.lat, l.lng))
    THEN [l EXCEPT !.result = item.k, !.pc = "returned"]
    ELSE IF l.pos = Len(country_geometries)
         THEN [l EXCEPT !.pc = "returned"]
         ELSE [l EXCEPT !.pos = l.pos + 1]

\* a turn of the loop that also moves the item it has tested to the end
FindStepMoveToEnd ==
    /\ \E l \in BagToSet(lookups) :
         /\ l.pc = "scan"
         /\ lookups' = (lookups (-) SetToBag({l})) (+) SetToBag({Scanned(l)})
         /\ country_geometries' =
               [i \in 1..Len(country_geometries) |->
                  IF i < l.pos THEN country_geometries[i]
                  ELSE IF i < Len(country_geometries) THEN country_geometries[i + 1]
                  ELSE country_geometries[l.pos]]
    /\ UNCHANGED <<countries, lpc>>
    /\ UNCHANGED <<pipeVars, buildVars, simpVars, linkVars>>

\* lines 149-157: one turn of the loop of a lookup in progress
FindStep ==
    /\ \E l \in BagToSet(lookups) :
         /\ l.pc = "scan"
         /\ lookups' = (lookups (-) SetToBag({l})) (+) SetToBag({Scanned(l)})
    /\ UNCHANGED <<countries, country_geometries, lpc>>
    /\ UNCHANGED <<pipeVars, buildVars, simpVars, linkVars>>

NextLocate ==
    \/ LoadCountryGeometries
    \/ FindCall
    \/ FindStep

SpecLocate ==
    InitLocate /\ [][NextLocate]_vars

(***************************************************************************)
(* DatabaseOperations.link_cities_to_countries (operations.py) over a      *)
(* cities table.  NULL is 0 for country_id, "None" for the tag code, and   *)
(* has_center = FALSE for the two center columns.  One action per linking  *)
(* step; _link_by_geometry is one action per turn of its paging loop.      *)
(***************************************************************************)
MaxCities == 3
BatchSize == 2
MaxRuns == 2

\* the ids of the countries table of the linking runs
LinkCountryIds ==
    {1, 2}

\* countries.country_code_alpha2
CountryCode(id) ==
    IF id = 1 THEN "AQ" ELSE "FR"

\* countries.center_lat, countries.center_lng
CountryCenter(id) ==
    IF id = 1 THEN [lat |-> 0 - 80, lng |-> 0] ELSE [lat |-> 2, lng |-> 3]

\* the rows a city may have: unlinked in the rectangle, unlinked outside it,
\* unlinked with a tag code only, linked already, unlinked in the Antarctic,
\* unlinked with the code of no country
CityChoices ==
    {[country_id |-> 0, country_code_from_tags |-> "None",
      has_center |-> TRUE, center_lat |-> 1, center_lng |-> 5],
     [country_id |-> 0, country_code_from_tags |-> "None",
      has_center |-> TRUE, center_lat |-> 5, center_lng |-> 2],
     [country_id |-> 0, country_code_from_tags |-> "AQ",
      has_center |-> FALSE, center_lat |-> 0, center_lng |-> 0],
     [country_id |-> 2, country_code_from_tags |-> "None",
      has_center |-> TRUE, center_lat |-> 1, center_lng |-> 5],
     [country_id |-> 0, country_code_from_tags |-> "None",
      has_center |-> TRUE, center_lat |-> 0 - 70, center_lng |-> 0],
     [country_id |-> 0, country_code_from_tags |-> "ZZ",
      has_center |-> FALSE, center_lat |-> 0, center_lng |-> 0]}

\* SELECT c.id FROM countries c WHERE c.country_code_alpha2 = code LIMIT 1
\* (NULL when there is no such country)
CountryByCode(code) ==
    IF \E id \in LinkCountryIds : CountryCode(id) = code
    THEN CHOOSE id \in LinkCountryIds : CountryCode(id) = code
    ELSE 0

\* lines 188-198: the UPDATE of _link_by_country_tags
TagLinked(table) ==
    [c \in DOMAIN table |->
        IF table[c].country_id = 0 /\ table[c].country_code_from_tags # "None"
        THEN [table[c] EXCEPT !.country_id = CountryByCode(table[c].country_code_from_tags)]
        ELSE table[c]]

\* lines 300-314: simple_rules, as (code, condition) pairs
RegionCodes ==
    <<"AQ", "GL", "IS", "AU", "NZ">>

InRegion(code, lat, lng) ==
    CASE code = "AQ" -> lat < 0 - 60
      [] code = "GL" -> lat > 70 /\ lng >= 0 - 50 /\ lng <= 0 - 10
      [] code = "IS" -> lat >= 63 /\ lat <= 67 /\ lng >= 0 - 25 /\ lng <= 0 - 13
      [] code = "AU" -> lat >= 0 - 45 /\ lat <= 0 - 10 /\ lng >= 110 /\ lng <= 155
      [] code = "NZ" -> lat >= 0 - 48 /\ lat <= 0 - 34 /\ lng >= 165 /\ lng <= 180

\* lines 317-333: the UPDATEs of the rules from the i-th on, one after another
RECURSIVE RegionLinked(_, _)
RegionLinked(table, i) ==
    IF i > Len(RegionCodes)
    THEN table
    ELSE RegionLinked(
            [c \in DOMAIN table |->
                IF /\ table[c].country_id = 0
                   /\ table[c].has_center
                   /\ InRegion(RegionCodes[i], table[c].center_lat, table[c].center_lng)
                THEN [table[c] EXCEPT !.country_id = CountryByCode(RegionCodes[i])]
                ELSE table[c]],
            i + 1)

\* lines 268-270: the square of the distance the subquery orders by
CenterDistance(city, id) ==
    (city.center_lat - CountryCenter(id).lat) * (city.center_lat - CountryCenter(id).lat)
    + (city.center_lng - CountryCenter(id).lng) * (city.center_lng - CountryCenter(id).lng)

\* lines 263-271: the countries the subquery may return for a city
Nearest(city) ==
    {id \in LinkCountryIds :
        \A other \in LinkCountryIds : CenterDistance(city, id) <= CenterDistance(city, other)}

\* lines 215-224: the rows of the SELECT, the cities that are unlinked and
\* have a center
UnlinkedWithCenter(table) ==
    {c \in DOMAIN table : table[c].country_id = 0 /\ table[c].has_center}

\* lines 231-249: the updates of a batch
BatchLinked(table, batch, geometries) ==
    [c \in DOMAIN table |->
        IF /\ c \in Range(batch)
           /\ FindCountryForPoint(geometries, table[c].center_lat, table[c].center_lng) # 0
        THEN [table[c] EXCEPT !.country_id =
                 FindCountryForPoint(geometries, table[c].center_lat, table[c].center_lng)]
        ELSE table[c]]

InitLink ==
    /\ PipeIdle
    /\ BuildIdle
    /\ SimplifyIdle
    /\ countries \in [LinkCountryIds ->
                        {NoBoundary, [type |-> "Polygon", coordinates |-> <<WideRing>>]}]
    /\ country_geometries = EmptyDict
    /\ lpc = "idle"
    /\ lookups = EmptyBag
    /\ cities \in [1..MaxCities -> CityChoices]
    /\ link_pc = "start"
    /\ link_steps = <<>>
    /\ offset = 0
    /\ link_runs = 1

\* lines 163-169: load the geometries and choose the precise or the
\* approximate method
LinkLoad ==
    /\ link_pc = "start"
    /\ \E order \in FetchOrders({id \in DOMAIN countries : countries[id] # NoBoundary}) :
         country_geometries' = LoadRows(order, countries, country_geometries)
    /\ link_pc' = IF country_geometries' = EmptyDict THEN "fallback_tags" ELSE "tags"
    /\ link_steps' = Append(link_steps, "load")
    /\ UNCHANGED <<countries, lpc, lookups, cities, offset, link_runs>>
    /\ UNCHANGED <<pipeVars, buildVars, simpVars>>

\* lines 185-202: _link_by_country_tags (called at line 172 or 287)
LinkByCountryTags ==
    /\ link_pc \in {"tags", "fallback_tags"}
    /\ cities' = TagLinked(cities)
    /\ link_pc' = IF link_pc = "tags" THEN "geometry" ELSE "regions"
    /\ link_steps' = Append(link_steps, "tags")
    /\ UNCHANGED <<offset, link_runs>>
    /\ UNCHANGED <<pipeVars, buildVars, simpVars, locVars>>

\* lines 204-213: entry of _link_by_geometry
LinkByGeometry ==
    /\ link_pc = "geometry"
    /\ offset' = 0
    /\ link_pc' = "geometry_loop"
    /\ link_steps' = Append(link_steps, "geometry")
    /\ UNCHANGED <<cities, link_runs>>
    /\ UNCHANGED <<pipeVars, buildVars, simpVars, locVars>>

\* lines 214-254: one turn of the paging loop: the SELECT with LIMIT and
\* OFFSET over the cities still unlinked (in the order the database returns
\* them), the updates of the batch, offset += batch_size; an empty batch
\* ends the loop
LinkGeometryBatch ==
    /\ link_pc = "geometry_loop"
    /\ \E order \in FetchOrders(UnlinkedWithCenter(cities)) :
         LET last == IF offset + BatchSize < Len(order)
                     THEN offset + BatchSize ELSE Len(order)
             batch == SubSeq(order, offset + 1, last)
         IN IF batch = <<>>
            THEN /\ link_pc' = "proximity"
                 /\ UNCHANGED <<cities, offset>>
            ELSE /\ cities' = BatchLinked(cities, batch, country_geometries)
                 /\ offset' = offset + BatchSize
                 /\ UNCHANGED link_pc
    /\ UNCHANGED <<link_steps, link_runs>>
    /\ UNCHANGED <<pipeVars, buildVars, simpVars, locVars>>

\* lines 295-335: _link_by_simple_regions
LinkBySimpleRegions ==
    /\ link_pc = "regions"
    /\ cities' = RegionLinked(cities, 1)
    /\ link_pc' = "fallback_proximity"
    /\ link_steps' = Append(link_steps, "regions")
    /\ UNCHANGED <<offset, link_runs>>
    /\ UNCHANGED <<pipeVars, buildVars, simpVars, locVars>>

\* _link_by_proximity with an UPDATE over every city that has a center
LinkByProximityAll ==
    /\ link_pc \in {"proximity", "fallback_proximity"}
    /\ \E pick \in [DOMAIN cities -> LinkCountryIds] :
         /\ \A c \in DOMAIN cities : pick[c] \in Nearest(cities[c])
         /\ cities' = [c \in DOMAIN cities |->
                         IF cities[c].has_center
                         THEN [cities[c] EXCEPT !.country_id = pick[c]]
                         ELSE cities[c]]
    /\ link_pc' = IF link_pc = "proximity" THEN "stats" ELSE "done"
    /\ link_steps' = Append(link_steps, "proximity")
    /\ UNCHANGED <<offset, link_runs>>
    /\ UNCHANGED <<pipeVars, buildVars, simpVars, locVars>>

\* lines 258-280: _link_by_proximity (called at line 178 or 293)
LinkByProximity ==
    /\ link_pc \in {"proximity", "fallback_proximity"}
    /\ \E pick \in [DOMAIN cities -> LinkCountryIds] :
         /\ \A c \in DOMAIN cities : pick[c] \in Nearest(cities[c])
         /\ cities' = [c \in DOMAIN cities |->
                         IF cities[c].country_id = 0 /\ cities[c].has_center
                         THEN [cities[c] EXCEPT !.country_id = pick[c]]
                         ELSE cities[c]]
    /\ link_pc' = IF link_pc = "proximity" THEN "stats" ELSE "done"
    /\ link_steps' = Append(link_steps, "proximity")
    /\ UNCHANGED <<offset, link_runs>>
    /\ UNCHANGED <<pipeVars, buildVars, simpVars, locVars>>

\* lines 180-183: get_linking_stats and the end of the precise method
LinkStats ==
    /\ link_pc = "stats"
    /\ link_pc' = "done"
    /\ link_steps' = Append(link_steps, "stats")
    /\ UNCHANGED <<cities, offset, link_runs>>
    /\ UNCHANGED <<pipeVars, buildVars, simpVars, locVars>>

\* a further call of link_cities_to_countries on the same object
LinkAgain ==
    /\ link_pc = "done"
    /\ link_runs < MaxRuns
    /\ link_pc' = "start"
    /\ link_steps' = <<>>
    /\ link_runs' = link_runs + 1
    /\ UNCHANGED <<cities, offset>>
    /\ UNCHANGED <<pipeVars, buildVars, simpVars, locVars>>

NextLink ==
    \/ LinkLoad
    \/ LinkByCountryTags
    \/ LinkByGeometry
    \/ LinkGeometryBatch
    \/ LinkBySimpleRegions
    \/ LinkByProximity
    \/ LinkStats
    \/ LinkAgain

SpecLink ==
    InitLink /\ [][NextLink]_vars

(***************************************************************************)
(* Properties of the three passes (specification Spec).                    *)
(***************************************************************************)
\* the positions of the records of a kind in the stream
RecordsOf(kind) ==
    {i \in 1..Len(stream) : stream[i].kind = kind}

\* the way ids a relation record refers to
WayRefs(r) ==
    {r.members[j].ref : j \in {x \in 1..Len(r.members) : r.members[x].type = "w"}}

\* a relation record the relation pass has to keep
ShouldRetain(r) ==
    /\ r.tags.boundary = "administrative"
    /\ r.tags.admin_level = "2"
    /\ target_countries = {} \/ r.id \in target_countries
    /\ WayRefs(r) # {}

\* C1: the way cache holds only ways collected from a retained relation and
\* the node cache only nodes of a cached way: cached way ids are a subset of
\* needed_ways, cached node ids a subset of needed_nodes.
C1_OnlyReferencedCached ==
    /\ DictKeys(ways_data) \subseteq needed_ways
    /\ \A w \in DictKeys(ways_data) :
         \E i \in 1..Len(country_ways) : w \in Range(country_ways[i].v)
    /\ DictKeys(nodes_data) \subseteq needed_nodes
    /\ \A n \in DictKeys(nodes_data) :
         \E j \in 1..Len(ways_data) : n \in Range(ways_data[j].v)

\* a finished run that cached ways and nodes and left a way record and a
\* node record of the stream out of the caches
C1_Witness ==
    /\ pc = "done"
    /\ ways_data # EmptyDict
    /\ nodes_data # EmptyDict
    /\ \E i \in RecordsOf("way") : ~DictHas(ways_data, stream[i].id)
    /\ \E i \in RecordsOf("node") : ~DictHas(nodes_data, stream[i].id)

AllPasses ==
    <<"relation", "way", "node">>

\* the relation pass has seen every relation record and the way targets are
\* the way refs of the retained relations
RelationPassComplete ==
    /\ \A i \in RecordsOf("relation") :
         ShouldRetain(stream[i]) =>
            DictHas(country_ways, stream[i].id) /\ WayRefs(stream[i]) \subseteq needed_ways
    /\ \A w \in needed_ways :
         \E i \in RecordsOf("relation") : ShouldRetain(stream[i]) /\ w \in WayRefs(stream[i])

\* the way pass has seen every way record and the node targets are the
\* nodes of the cached ways
WayPassComplete ==
    /\ \A i \in RecordsOf("way") :
         stream[i].id \in needed_ways =>
            DictHas(ways_data, stream[i].id) /\ Range(stream[i].nodes) \subseteq needed_nodes
    /\ \A n \in needed_nodes :
         \E i \in RecordsOf("way") : stream[i].id \in needed_ways /\ n \in Range(stream[i].nodes)

\* C2 as stated: resolution runs exactly three passes.
C2_ExactlyThreePasses ==
    pc = "done" => passes = AllPasses

\* C2 as amended: the passes run in the order relation, way, node, all three
\* when a relation was retained and the relation pass alone otherwise; the
\* way pass starts with its target set complete, the node pass too; while a
\* pass runs, a step changes nothing but the position in the stream and the
\* dict of that pass, and a record of another kind changes the position only.
C2_PassOrder ==
    /\ [](/\ passes \in {SubSeq(AllPasses, 1, n) : n \in 1..3}
          /\ pc = "done" =>
               passes = IF country_ways = EmptyDict THEN <<"relation">> ELSE AllPasses
          /\ Len(passes) >= 2 => RelationPassComplete
          /\ Len(passes) = 3 => WayPassComplete)
    /\ [][InPass =>
            /\ pc = "relations" =>
                 UNCHANGED <<needed_ways, ways_data, needed_nodes, nodes_data, boundaries>>
            /\ pc = "ways" =>
                 UNCHANGED <<country_ways, needed_ways, needed_nodes, nodes_data, boundaries>>
            /\ pc = "nodes" =>
                 UNCHANGED <<country_ways, needed_ways, ways_data, needed_nodes, boundaries>>
            /\ stream[pos + 1].kind # HandledKind =>
                 UNCHANGED <<country_ways, ways_data, nodes_data>>]_vars

\* a finished run of three passes that cached a node
C2_Witness ==
    pc = "done" /\ passes = AllPasses /\ nodes_data # EmptyDict

\* C3 as stated: a relation is retained if and only if its tags satisfy the
\* filter.
C3_RetainedIffFilter ==
    pc # "relations" =>
       \A i \in RecordsOf("relation") :
          DictHas(country_ways, stream[i].id)
             <=> (stream[i].tags.boundary = "administrative"
                  /\ stream[i].tags.admin_level = "2")

\* C3 as amended: a relation is retained if and only if its tags satisfy the
\* filter, its id is among the target countries when some are given, and it
\* has a member of kind Way; the ways collected for a retained relation are
\* the refs of its members of kind Way, one per such member.
C3_RetainedIffFilterTargetWays ==
    pc # "relations" =>
       \A i \in RecordsOf("relation") :
          LET r == stream[i] IN
          /\ DictHas(country_ways, r.id) <=> ShouldRetain(r)
          /\ DictHas(country_ways, r.id) =>
               /\ Range(DictGet(country_ways, r.id)) = WayRefs(r)
               /\ Len(DictGet(country_ways, r.id))
                    = Cardinality({j \in 1..Len(r.members) : r.members[j].type = "w"})

\* after the relation pass: a relation was retained, and a relation with the
\* tags of the filter was not
C3_Witness ==
    /\ pc = "ways"
    /\ \E i \in RecordsOf("relation") :
         DictHas(country_ways, stream[i].id) /\ Len(stream[i].members) = 2
    /\ \E i \in RecordsOf("relation") :
         IsCountry(stream[i].tags) /\ ~DictHas(country_ways, stream[i].id)

RECURSIVE FileDict(_, _, _)
\* the records of a kind of the stream as a dict id -> value
FileDict(i, kind, acc) ==
    IF i > Len(stream)
    THEN acc
    ELSE IF stream[i].kind # kind
         THEN FileDict(i + 1, kind, acc)
         ELSE FileDict(i + 1, kind,
                       DictSet(acc, stream[i].id,
                               IF kind = "way" THEN stream[i].nodes
                               ELSE <<stream[i].lon, stream[i].lat>>))

\* every way of the relation and every node of these ways is in the stream
FullyInStream(r) ==
    \A w \in WayRefs(r) :
       /\ DictHas(FileDict(1, "way", EmptyDict), w)
       /\ \A n \in Range(DictGet(FileDict(1, "way", EmptyDict), w)) :
            DictHas(FileDict(1, "node", EmptyDict), n)

\* the returned map has, for a relation, what _build_boundary makes of the
\* file's own ways and nodes
HasFileBoundary(r) ==
    LET b == BuildBoundary(MemberWays(r.members), FileDict(1, "way", EmptyDict),
                           FileDict(1, "node", EmptyDict))
    IN IF b = NoBoundary
       THEN ~DictHas(boundaries, r.id)
       ELSE DictHas(boundaries, r.id) /\ DictGet(boundaries, r.id) = b

\* the number of steps the run has left at most: the phases still to run,
\* each at most as long as the stream, and the rest of the running phase
StepsLeft ==
    LET phase == CASE pc = "relations" -> 4
                   [] pc = "ways" -> 3
                   [] pc = "nodes" -> 2
                   [] pc = "build" -> 1
                   [] OTHER -> 0
        rest == CASE pc \in {"relations", "ways", "nodes"} -> Len(stream) - pos
                  [] pc = "build" -> Len(country_ways) - built
                  [] OTHER -> 0
    IN phase * (Len(stream) + 1) + rest

\* the run can take a step: a record to apply, a pass to end, a relation to
\* build (BuildNext is defined wherever its guard holds) or the return
HasNextStep ==
    \/ ENABLED (RelationHandler \/ WayHandler \/ NodeHandler \/ SkipRecord)
    \/ ENABLED (EndRelationPass \/ EndWayPass \/ EndNodePass \/ Return)
    \/ pc = "build" /\ built < Len(country_ways)

\* C4: a way or a node that is referenced and absent from the stream never
\* makes the run fail: the run always has a next step until it returns, each
\* step brings the return nearer, and the returned map has the boundary of
\* every retained relation whose ways and nodes are all in the stream.
C4_MissingNeverFatal ==
    /\ [](/\ pc # "done" => HasNextStep
          /\ StepsLeft >= 0
          /\ pc = "done" =>
               \A i \in RecordsOf("relation") :
                  ShouldRetain(stream[i]) /\ FullyInStream(stream[i])
                     => HasFileBoundary(stream[i]))
    /\ [][StepsLeft' < StepsLeft]_vars

\* a finished run in which a retained relation refers to a way or a node
\* absent from the stream and another relation has its boundary
C4_Witness ==
    /\ pc = "done"
    /\ \E i, j \in RecordsOf("relation") :
         /\ i # j
         /\ ShouldRetain(stream[i]) /\ ~FullyInStream(stream[i])
         /\ ShouldRetain(stream[j]) /\ FullyInStream(stream[j])
         /\ DictHas(boundaries, stream[j].id)

WayResolved(w) ==
    /\ DictHas(arg_ways_data, w)
    /\ \A n \in Range(DictGet(arg_ways_data, w)) : DictHas(arg_nodes_data, n)

\* the segments of a way, as unordered pairs of node ids
WayEdges(w) ==
    LET nodes == DictGet(arg_ways_data, w)
    IN {{nodes[i], nodes[i + 1]} : i \in 1..(Len(nodes) - 1)}

RECURSIVE Connected(_, _)
\* the nodes joined to those of S by the edges of E
Connected(S, E) ==
    LET T == S \cup UNION {e \in E : e \cap S # {}}
    IN IF T = S THEN S ELSE Connected(T, E)

\* the member ways are resolved and their segments form one cycle: no
\* segment twice, two segments at every node, all nodes joined
OneCycle ==
    /\ \A w \in Range(arg_ways) : WayResolved(w)
    /\ \A w \in Range(arg_ways) :
         Cardinality(WayEdges(w)) = Len(DictGet(arg_ways_data, w)) - 1
    /\ \A v, w \in Range(arg_ways) : v # w => WayEdges(v) \cap WayEdges(w) = {}
    /\ LET E == UNION {WayEdges(w) : w \in Range(arg_ways)}
           V == UNION E
       IN /\ \A n \in V : Cardinality({e \in E : n \in e}) = 2
          /\ Connected({CHOOSE n \in V : TRUE}, E) = V

\* the ring goes once around the cycle of the member ways
IsCycleRing(ring) ==
    LET E == UNION {WayEdges(w) : w \in Range(arg_ways)}
        V == UNION E
    IN /\ Len(ring) = Cardinality(V) + 1
       /\ Len(ring) >= 4
       /\ ring[1] = ring[Len(ring)]
       /\ {ring[i] : i \in 1..(Len(ring) - 1)} = {Location(n) : n \in V}
       /\ \A i \in 1..(Len(ring) - 1) :
            \E e \in E : {ring[i], ring[i + 1]} = {Location(n) : n \in e}

\* C6 as stated: member ways that all resolve and form one cycle give one
\* closed ring of at least 4 points that visits the vertices of the cycle
\* once each in cycle order.
C6_OneCycleOneRing ==
    bpc = "returned" /\ OneCycle =>
       /\ result.type = "Polygon"
       /\ Len(result.coordinates) = 1
       /\ IsCycleRing(result.coordinates[1])

\* two closed rings with the same points up to rotation and direction
SameRing(r1, r2) ==
    LET n == Len(r1) - 1 IN
    /\ Len(r2) = Len(r1)
    /\ \E k \in 0..(n - 1) :
         \/ \A i \in 1..n : r2[i] = r1[((i - 1 + k) % n) + 1]
         \/ \A i \in 1..n : r2[i] = r1[((n - i + k) % n) + 1]

\* two results with the same set of rings
SameRings(d1, d2) ==
    \/ d1 = NoBoundary /\ d2 = NoBoundary
    \/ /\ d1 # NoBoundary
       /\ d2 # NoBoundary
       /\ \A i \in 1..Len(d1.coordinates) :
            \E j \in 1..Len(d2.coordinates) : SameRing(d1.coordinates[i], d2.coordinates[j])
       /\ \A j \in 1..Len(d2.coordinates) :
            \E i \in 1..Len(d1.coordinates) : SameRing(d1.coordinates[i], d2.coordinates[j])

\* C7 as stated: every permutation of the member list gives the same set of
\* rings, up to rotation and direction.
C7_OrderIndependent ==
    bpc = "returned" =>
       \A q \in WayLists :
          Len(q) = Len(arg_ways) /\ Range(q) = Range(arg_ways) =>
             SameRings(BuildBoundary(q, arg_ways_data, arg_nodes_data), result)

\* C8 as stated: two resolved ways of two nodes each, four distinct nodes in
\* all, give no polygon.
C8_DisjointNoPolygon ==
    (/\ bpc = "returned"
     /\ Len(arg_ways) = 2
     /\ \A w \in Range(arg_ways) : WayResolved(w) /\ Len(DictGet(arg_ways_data, w)) = 2
     /\ Cardinality(UNION {Range(DictGet(arg_ways_data, w)) : w \in Range(arg_ways)}) = 4)
    => result = NoBoundary

\* three member ways, one absent from the way cache, the two others of two
\* nodes each, resolved, with one node in common: a triangle less one side
TriangleLessOne ==
    /\ Len(arg_ways) = 3
    /\ Cardinality({w \in Range(arg_ways) : DictHas(arg_ways_data, w)}) = 2
    /\ \A w \in Range(arg_ways) :
         DictHas(arg_ways_data, w) =>
            WayResolved(w) /\ Len(DictGet(arg_ways_data, w)) = 2
    /\ Cardinality(UNION {Range(DictGet(arg_ways_data, w)) :
                            w \in {x \in Range(arg_ways) : DictHas(arg_ways_data, x)}}) = 3

\* C9 as stated: a triangle of which one way is absent gives no polygon, and
\* the missing way id is named.
C9_MissingSideNoPolygon ==
    bpc = "returned" /\ TriangleLessOne =>
       /\ result = NoBoundary
       /\ \A w \in Range(arg_ways) :
            ~DictHas(arg_ways_data, w) =>
               [level |-> "DEBUG", msg |-> "way_not_found", id |-> w] \in log

\* C10 as stated: every ring returned is closed, has at least 4 points and
\* at least 3 distinct vertices.
C10_RingValid ==
    bpc = "returned" /\ result # NoBoundary =>
       \A i \in 1..Len(result.coordinates) :
          LET ring == result.coordinates[i] IN
          /\ ring[1] = ring[Len(ring)]
          /\ Len(ring) >= 4
          /\ Cardinality(Range(ring)) >= 3

(***************************************************************************)
(* Properties of the simplifier (specification SpecSimplify).              *)
(***************************************************************************)
\* C11 as stated: with tolerance 0, _douglas_peucker_simplify returns the
\* point sequence it was given, no point removed (interior points on the
\* line between their anchors included).
C11_ZeroToleranceIdentity ==
    tolerance = 0 /\ Len(simplified) >= 1 =>
       simplified[1] = ExtractCoordinates(geometry_data)

\* C12 as stated: every ring of the document simplify_boundary returns has
\* at least 4 points.
C12_RingAtLeastFour ==
    spc = "returned" /\ geojson # NoBoundary =>
       \A i \in 1..Len(geojson.coordinates) : Len(geojson.coordinates[i]) >= 4

\* C13: simplification is idempotent: _douglas_peucker_simplify applied with
\* the same tolerance to one of its results returns that result.
C13_Idempotent ==
    \A i \in 2..Len(simplified) : simplified[i] = simplified[i - 1]

\* C13 happens: a simplification that removed a point and kept an interior
\* one has been simplified again
C13_Witness ==
    /\ Len(simplified) >= 2
    /\ Len(simplified[1]) >= 3
    /\ Len(simplified[1]) < Len(ExtractCoordinates(geometry_data))

(***************************************************************************)
(* Properties of the point lookup (specification SpecLocate).              *)
(***************************************************************************)
\* the point a lookup asks about, as a [lon, lat] pair
PointOf(l) ==
    <<l.lng, l.lat>>

\* the lookups that have returned after scanning the loaded index
ReturnedScans ==
    {l \in BagToSet(lookups) : l.pc = "returned" /\ l.pos > 0}

\* the ids of the index whose polygon has the point in its interior
Matches(p) ==
    {country_geometries[i].k : i \in {j \in 1..Len(country_geometries) :
                                         InsideRing(country_geometries[j].v.geometry, p)}}

\* the ids of the index whose polygon has the point on its outer ring
Touches(p) ==
    {country_geometries[i].k : i \in {j \in 1..Len(country_geometries) :
                                         OnRing(country_geometries[j].v.geometry, p)}}

\* the point is strictly inside an inner ring of the stored document
InHole(doc, p) ==
    \E i \in 2..Len(doc.coordinates) : InsideRing(doc.coordinates[i], p)

\* the stored documents of the index that have an inner ring
WithHole ==
    {id \in DOMAIN countries :
        /\ DictHas(country_geometries, id)
        /\ Len(countries[id].coordinates) >= 2}

\* C14 as stated: for a boundary with a hole, a lookup of a point inside the
\* hole does not report that boundary, and a lookup of a point inside the
\* outer ring and outside the hole reports it (no other polygon of the index
\* having the point).
C14_HoleExcluded ==
    \A l \in ReturnedScans : \A id \in WithHole :
       LET doc == countries[id] IN
       /\ InHole(doc, PointOf(l)) => l.result # id
       /\ /\ InsideRing(doc.coordinates[1], PointOf(l))
          /\ ~InHole(doc, PointOf(l))
          /\ \A i \in 2..Len(doc.coordinates) : ~OnRing(doc.coordinates[i], PointOf(l))
          /\ Matches(PointOf(l)) = {id}
          => l.result = id

\* C15 as stated: a lookup of a point on an edge or a vertex of the outer
\* ring of a boundary reports that boundary (no other polygon of the index
\* having or touching the point).
C15_EdgeInclusive ==
    \A l \in ReturnedScans : \A id \in Touches(PointOf(l)) :
       Touches(PointOf(l)) = {id} /\ Matches(PointOf(l)) = {} => l.result = id

\* C16 as stated: when several polygons of the index contain the point, the
\* lookup returns the smallest of their ids, whatever the order in which the
\* rows were loaded.
C16_SmallestIdWins ==
    \A l \in ReturnedScans :
       Matches(PointOf(l)) # {} =>
          \A id \in Matches(PointOf(l)) : l.result <= id

\* C17: a lookup returns None when no polygon of the index contains the
\* point and when it finds the index empty, and it returns an id only if the
\* polygon loaded for that id contains the point.
C17_NoneOutsideSoundInside ==
    \A l \in BagToSet(lookups) :
       l.pc = "returned" =>
          /\ l.pos = 0 => l.result = 0
          /\ Matches(PointOf(l)) = {} => l.result = 0
          /\ l.result # 0 => l.result \in Matches(PointOf(l))

\* C17 happens: over a loaded index, one lookup has returned None for a
\* point outside every polygon and another one an id
C17_Witness ==
    /\ country_geometries # EmptyDict
    /\ \E l \in ReturnedScans : l.result = 0 /\ Matches(PointOf(l)) = {}
    /\ \E l \in ReturnedScans : l.result # 0

\* C20: once the index is loaded no step changes it, and every lookup that
\* scanned it returns what the same call returns when made alone, however
\* the turns of the lookups in progress interleave.
C20_LookupsReadOnly ==
    /\ [](\A l \in ReturnedScans :
            l.result = FindCountryForPoint(country_geometries, l.lat, l.lng))
    /\ [][lpc = "loaded" => country_geometries' = country_geometries]_vars

\* C20 happens: a lookup has returned an id found at the second item while
\* another lookup is in the middle of its scan
C20_Witness ==
    /\ \E l \in BagToSet(lookups) : l.pc = "returned" /\ l.pos = 2 /\ l.result # 0
    /\ \E l \in BagToSet(lookups) : l.pc = "scan" /\ l.pos = 2

(***************************************************************************)
(* Properties of the exported geometry (specification SpecBuild).          *)
(***************************************************************************)
\* the polygons the member ways resolve to: the sets of nodes joined by the
\* segments of the ways
PolygonParts ==
    LET E == UNION {WayEdges(w) : w \in Range(arg_ways)}
    IN {Connected({n}, E) : n \in UNION E}

\* the member ways are resolved and their segments form cycles: no segment
\* twice and two segments at every node
OnlyCycles ==
    /\ \A w \in Range(arg_ways) : WayResolved(w)
    /\ \A w \in Range(arg_ways) :
         Cardinality(WayEdges(w)) = Len(DictGet(arg_ways_data, w)) - 1
    /\ \A v, w \in Range(arg_ways) : v # w => WayEdges(v) \cap WayEdges(w) = {}
    /\ LET E == UNION {WayEdges(w) : w \in Range(arg_ways)}
       IN \A n \in UNION E : Cardinality({e \in E : n \in e}) = 2

\* every ring of a polygon is closed and made of [lon, lat] pairs of nodes
RingsClosedLonLat(polygon) ==
    \A i \in 1..Len(polygon) :
       /\ polygon[i][1] = polygon[i][Len(polygon[i])]
       /\ \A j \in 1..Len(polygon[i]) :
            \E n \in DictKeys(arg_nodes_data) :
               polygon[i][j] = <<NodeRecord(n).lon, NodeRecord(n).lat>>

\* C18 as stated: the exported geometry lists [lon, lat] pairs in closed
\* rings, and member ways that resolve to more than one disjoint polygon are
\* exported as a multi-polygon with one entry per polygon.
C18_ExportShape ==
    bpc = "returned" /\ result # NoBoundary =>
       /\ OnlyCycles /\ Cardinality(PolygonParts) >= 2 =>
             /\ result.type = "MultiPolygon"
             /\ Len(result.coordinates) = Cardinality(PolygonParts)
             /\ \A i \in 1..Len(result.coordinates) :
                  RingsClosedLonLat(result.coordinates[i])
       /\ ~(OnlyCycles /\ Cardinality(PolygonParts) >= 2) =>
             /\ result.type = "Polygon"
             /\ RingsClosedLonLat(result.coordinates)

(***************************************************************************)
(* Properties of the phase-4 loop (specification Spec).                    *)
(***************************************************************************)
\* the boundary _build_boundary gives for the i-th retained relation, from
\* the caches of the run
BoundaryOfItem(i) ==
    BuildBoundary(country_ways[i].v, ways_data, nodes_data)

\* C19: a relation whose geometry cannot be built does not stop the run: the
\* loop goes through every retained relation, and the map holds, for every
\* relation gone through, its boundary exactly when its build gives one.
C19_FailureSkipped ==
    /\ pc = "done" => built = Len(country_ways)
    /\ pc \in {"build", "done"} =>
          \A i \in 1..built :
             IF BoundaryOfItem(i) # NoBoundary
             THEN /\ DictHas(boundaries, country_ways[i].k)
                  /\ DictGet(boundaries, country_ways[i].k) = BoundaryOfItem(i)
             ELSE ~DictHas(boundaries, country_ways[i].k)

\* C19 happens: the run is done, its first retained relation had no
\* geometry and its second one has its boundary in the map
C19_Witness ==
    /\ pc = "done"
    /\ Len(country_ways) = 2
    /\ BoundaryOfItem(1) = NoBoundary
    /\ BoundaryOfItem(2) # NoBoundary
    /\ DictKeys(boundaries) = {country_ways[2].k}

\* C21: a turn of the phase-4 loop leaves the way cache, the node cache and
\* the member lists unchanged, keeps the boundaries already built, and the
\* boundary it adds for a relation is the one _build_boundary gives from that
\* relation's own member list and the caches: it does not depend on which
\* relations were built before.
C21_BuildReadsOwnMembers ==
    [][pc = "build" =>
          /\ ways_data' = ways_data
          /\ nodes_data' = nodes_data
          /\ country_ways' = country_ways
          /\ \A k \in DictKeys(boundaries) :
               DictHas(boundaries', k) /\ DictGet(boundaries', k) = DictGet(boundaries, k)
          /\ \A i \in 1..Len(country_ways) :
               country_ways[i].k \in DictKeys(boundaries') \ DictKeys(boundaries) =>
                  DictGet(boundaries', country_ways[i].k) =
                     BuildBoundary(country_ways[i].v, ways_data, nodes_data)]_vars

\* C21 happens: two relations that share a member way both have their
\* boundary in the map of a finished run
C21_Witness ==
    /\ pc = "done"
    /\ Len(country_ways) = 2
    /\ Len(boundaries) = 2
    /\ Range(country_ways[1].v) \cap Range(country_ways[2].v) # {}

(***************************************************************************)
(* Properties of the assembly in _build_boundary (specification SpecBuild). *)
(***************************************************************************)
\* the nodes of the member ways that are in the way cache with all their
\* nodes in the node cache
ResolvedWayNodes ==
    UNION {Range(DictGet(arg_ways_data, w)) : w \in {x \in Range(arg_ways) : WayResolved(x)}}

\* C22 as stated: a member way of which a node is unresolved is skipped
\* entirely: every point of a returned ring is a node of a member way that
\* is resolved with all its nodes.
C22_UnresolvedWaySkipped ==
    bpc = "returned" /\ result # NoBoundary =>
       \A i \in 1..Len(result.coordinates) :
          \A j \in 1..Len(result.coordinates[i]) :
             \E n \in ResolvedWayNodes : result.coordinates[i][j] = Location(n)

\* the way cache with the node lists of the ways of R reversed
ReversedWays(R) ==
    [i \in 1..Len(arg_ways_data) |->
        IF arg_ways_data[i].k \in R
        THEN [k |-> arg_ways_data[i].k,
              v |-> [j \in 1..Len(arg_ways_data[i].v) |->
                       arg_ways_data[i].v[Len(arg_ways_data[i].v) + 1 - j]]]
        ELSE arg_ways_data[i]]

\* C23 as stated: for member ways that form one cycle, the ring is the same
\* whichever of the ways are stored end to start, and consecutive points of
\* the ring are consecutive nodes of some member way.
C23_ReversalInsensitive ==
    bpc = "returned" /\ OneCycle =>
       /\ result # NoBoundary
       /\ \A R \in SUBSET Range(arg_ways) :
            SameRings(BuildBoundary(arg_ways, ReversedWays(R), arg_nodes_data), result)
       /\ \A i \in 1..(Len(result.coordinates[1]) - 1) :
            \E w \in Range(arg_ways) : \E e \in WayEdges(w) :
               {result.coordinates[1][i], result.coordinates[1][i + 1]}
                  = {Location(n) : n \in e}

\* the point chain of the call before closure: the coordinates of the member
\* ways, consecutive repetitions removed (empty when there are fewer than 3)
Chain ==
    LET all_coords == Flatten(DictValues(
                         WayCoordinates(arg_ways, arg_ways_data, arg_nodes_data, EmptyDict)))
    IN IF Len(all_coords) < 3 THEN <<>>
       ELSE UniqueCoords(Tail(all_coords), <<all_coords[1]>>)

\* C24 as stated: a chain that does not close by itself gives the ring made
\* of the chain and its first point when it has at least 3 distinct points,
\* and no ring when it has fewer.
C24_ClosureNeedsThreeDistinct ==
    bpc = "returned" /\ Chain # <<>> /\ Chain[1] # Chain[Len(Chain)] =>
       IF Cardinality(Range(Chain)) >= 3
       THEN result # NoBoundary /\ result.coordinates[1] = Append(Chain, Chain[1])
       ELSE result = NoBoundary

(***************************************************************************)
(* Properties of the member roles (specification Spec).                    *)
(***************************************************************************)
\* the nodes of the cached ways that relation r lists under a role other
\* than inner
OuterNodes(r) ==
    UNION {Range(DictGet(ways_data, r.members[j].ref)) :
             j \in {x \in 1..Len(r.members) :
                      /\ r.members[x].type = "w"
                      /\ r.members[x].role # "inner"
                      /\ DictHas(ways_data, r.members[x].ref)}}

\* C25 as stated: the way members are partitioned by role, and a member of
\* role inner gives no point to the outer ring: every point of the outer
\* ring of a boundary is a node of a way the relation lists under another
\* role.
C25_InnerNotInOuterRing ==
    pc = "done" =>
       \A i \in RecordsOf("relation") :
          DictHas(boundaries, stream[i].id) =>
             LET outer == DictGet(boundaries, stream[i].id).coordinates[1] IN
             \A j \in 1..Len(outer) :
                \E n \in OuterNodes(stream[i]) :
                   outer[j] = <<NodeRecord(n).lon, NodeRecord(n).lat>>

(***************************************************************************)
(* Further properties of the simplifier (specification SpecSimplify).      *)
(***************************************************************************)
\* a ring as _to_geojson closes it
ClosedRing(coordinates) ==
    IF coordinates[1] # coordinates[Len(coordinates)]
    THEN Append(coordinates, coordinates[1])
    ELSE coordinates

\* C26 as stated: when the simplification of a closed ring of at least 4
\* points, 3 of them distinct, leaves fewer than 4 points, simplify_boundary returns the original ring
\* and not a smaller or empty one.
C26_FallbackToOriginal ==
    LET coordinates == ExtractCoordinates(geometry_data) IN
    (/\ spc = "returned"
     /\ Len(coordinates) >= 4
     /\ coordinates[1] = coordinates[Len(coordinates)]
     /\ Cardinality(Range(coordinates)) >= 3
     /\ Len(DouglasPeuckerSimplify(coordinates, tolerance)) < 4)
       => geojson = [type |-> "Polygon", coordinates |-> <<coordinates>>]

RECURSIVE IsSubsequence(_, _)
\* the points of s are points of t, in the same relative order
IsSubsequence(s, t) ==
    IF s = <<>> THEN TRUE
    ELSE IF t = <<>> THEN FALSE
    ELSE IF Head(s) = Head(t) THEN IsSubsequence(Tail(s), Tail(t))
    ELSE IsSubsequence(s, Tail(t))

\* the split of lines 73-74 on a stretch of the input is at an interior
\* point, so that both recursive calls are on strictly shorter sequences
SplitsShorter(coordinates, tol) ==
    \A a, b \in 1..Len(coordinates) :
       b >= a + 2 =>
          LET far == FarthestPoint(SubSeq(coordinates, a, b), 2, ZeroDistance, 1) IN
          Greater(far.max_distance, [num |-> tol * tol, den |-> 1]) =>
             far.max_index >= 2 /\ far.max_index <= b - a

\* C27: for a point sequence of at least 2 points, every call of
\* _douglas_peucker_simplify returns a subsequence of its input that starts
\* with the first point of the input and ends with its last point, and the
\* recursion terminates (every recursive call is on a shorter sequence).
C27_SubsequenceWithAnchors ==
    LET coordinates == ExtractCoordinates(geometry_data) IN
    /\ Len(coordinates) >= 2 =>
          \A i \in 1..Len(simplified) :
             /\ IsSubsequence(simplified[i], coordinates)
             /\ Len(simplified[i]) >= 2
             /\ simplified[i][1] = coordinates[1]
             /\ simplified[i][Len(simplified[i])] = coordinates[Len(coordinates)]
    /\ simplified # <<>> => SplitsShorter(coordinates, tolerance)

\* C27 happens: a call on 4 points has kept an interior point and removed
\* another one
C27_Witness ==
    /\ Len(simplified) = 1
    /\ Len(ExtractCoordinates(geometry_data)) = 4
    /\ Len(simplified[1]) = 3
    /\ tolerance > 0

(***************************************************************************)
(* The test script against _build_boundary (specification SpecBuild).      *)
(***************************************************************************)
\* C30 as stated: from the same member list, way cache and node cache, the
\* test script and _build_boundary succeed together and give the same ring
\* coordinates, whatever the order of the ways in the stream and in the
\* member list.
C30_TestScriptAgrees ==
    bpc = "returned" =>
       ExtractSingleCountryBoundary(arg_ways, arg_ways_data, arg_nodes_data) = result

(***************************************************************************)
(* Linking the cities to the countries (specification SpecLink).           *)
(***************************************************************************)
IsPrefixOf(s, t) ==
    /\ Len(s) <= Len(t)
    /\ \A i \in 1..Len(s) : s[i] = t[i]

\* C28: the steps of a run are taken in the order tags, geometry, proximity
\* (tags, simple regions, proximity when no geometry is loaded), and no
\* step, of this run or of a later one, changes the country_id of a city
\* that has one.
C28_StepsOrderedLinkedKept ==
    /\ [](\/ IsPrefixOf(link_steps, <<"load", "tags", "geometry", "proximity", "stats">>)
          \/ IsPrefixOf(link_steps, <<"load", "tags", "regions", "proximity">>))
    /\ [](link_pc \in {"regions", "fallback_proximity"} => country_geometries = EmptyDict)
    /\ [](link_pc \in {"geometry", "geometry_loop", "proximity", "stats"}
             => country_geometries # EmptyDict)
    /\ [][\A c \in DOMAIN cities :
             cities[c].country_id # 0 => cities'[c].country_id = cities[c].country_id]_vars

\* C28 happens: a second run has ended, and a city that the geometry step
\* linked to country 1 is still linked to it although country 2 is the
\* nearest one
C28_Witness ==
    /\ link_runs = 2
    /\ link_pc = "done"
    /\ link_steps = <<"load", "tags", "geometry", "proximity", "stats">>
    /\ \E c \in DOMAIN cities :
          /\ cities[c].country_id = 1
          /\ cities[c].has_center
          /\ Nearest(cities[c]) = {2}

\* C29 as stated: when _link_by_geometry has returned, every city that has
\* a center lying inside a loaded country polygon has a country_id.
C29_GeometryLinksEveryInsideCity ==
    link_pc = "proximity" =>
       \A c \in DOMAIN cities :
          (/\ cities[c].has_center
           /\ FindCountryForPoint(country_geometries,
                                  cities[c].center_lat, cities[c].center_lng) # 0)
             => cities[c].country_id # 0

====
